---- MODULE Spec2Model ----
(***************************************************************************)
(* Ledger model of silva-gg/bankAPI: the account and transaction tables,   *)
(* POST /transactions/ (register_transaction), POST /accounts/             *)
(* (create_account) and PATCH /accounts/{id} (update_account), translated  *)
(* from src/src/transactions/controller.py, src/src/transactions/          *)
(* schemas.py, src/src/contrib/schemas.py, src/src/accounts/controller.py, *)
(* src/src/accounts/schemas.py and src/src/accounts/models.py.             *)
(*                                                                         *)
(* Amounts are whole currency units.  A day is one calendar day (UTC).     *)
(* An HTTP response is a record [status, detail].                          *)
(***************************************************************************)
EXTENDS Integers, FiniteSets, Sequences, TLC

(***************************************************************************)
(* Bounds of the exploration.                                              *)
(***************************************************************************)
MaxAccounts == 2     \* account rows the autoincrement key may hand out
MaxDay == 2          \* calendar days the clock may reach

(***************************************************************************)
(* Users (users table) and the request bodies the clients send.            *)
(***************************************************************************)
Users == {"u1", "u2", "admin"}

IsSuperuser(u) == u = "admin"

Calls == {"c1", "c2"}

Values == {1, 150, 300, 500}

AccountNumbers == 1 .. (MaxAccounts + 1)

\* Column defaults of AccountModel.
DefaultBalance == 0
DefaultDailyWithdrawalLimit == 5
DefaultSpecialWithdrawalLimit == 500
DefaultUsedSpecialWithdrawal == 0

\* TransactionType enumeration.
TransactionType == {"deposit", "withdrawal"}

\* Field sets of the pydantic schemas (BaseSchema: extra = 'forbid').
TransactionFields == {"value", "transaction_type"}

TransactionInFields == TransactionFields \cup {"origin_account_number"}

OutMixinFields == {"id", "created_at"}

TransactionOutFields == TransactionFields \cup OutMixinFields

\* Fields of the body PATCH /accounts/{id} accepts: update_account declares
\* AccountUpdate (a password).  The first definition is the variant that
\* declares AccountAdminUpdate instead, a schema with the two limits that
\* no handler uses; it serves to test the properties below.
AccountAdminUpdateFields ==
    {"password", "daily_withdrawal_limit", "special_withdrawal_limit"}

AccountUpdateFields == {"password"}

\* Mapped attributes a TransactionModel constructor accepts.
TransactionModelAttrs ==
    {"id", "pk_id", "created_at", "origin_account_number", "value",
     "transaction_type", "account"}

(***************************************************************************)
(* JSON bodies posted to /transactions/: a record whose DOMAIN is the set  *)
(* of fields present in the body.                                          *)
(***************************************************************************)
DepositBodies ==
    [value : Values, transaction_type : {"deposit"},
     origin_account_number : AccountNumbers]

WithdrawalBodies ==
    [value : Values, transaction_type : {"withdrawal"},
     origin_account_number : AccountNumbers]

TransferBodies ==
    [value : {500}, transaction_type : {"transfer"},
     origin_account_number : {1}, destination_account_number : {2, MaxAccounts + 1}]
      \cup [value : {150}, transaction_type : {"transfer"},
            origin_account_number : {1}]

Bodies == DepositBodies \cup WithdrawalBodies \cup TransferBodies

\* JSON bodies sent to PATCH /accounts/{id}.
UpdateBodies ==
    [password : {"secret"}]
      \cup [special_withdrawal_limit : {0}]
      \cup [daily_withdrawal_limit : {0}]

NoRequest == [transaction_type |-> "none"]

NoUser == "nobody"

NoResponse == [status |-> 0, detail |-> ""]

Response(s, d) == [status |-> s, detail |-> d]

(***************************************************************************)
(* The store: rows of the accounts and transactions tables.                *)
(***************************************************************************)
VARIABLES
    accounts,           \* account_number -> row of table accounts
    transactions,       \* set of rows of table transactions
    nextAccountNumber,  \* next value of the autoincrement primary key
    today,              \* current calendar day (UTC)
    pc,                 \* per call slot: idle, running, rollback, done
    request,            \* per call slot: the posted body
    actor,              \* per call slot: the authenticated user
    response,           \* per call slot: the HTTP response
    before              \* per call slot: the store as it was when the call arrived

vars ==
    <<accounts, transactions, nextAccountNumber, today, pc, request, actor,
      response, before>>

store == <<accounts, transactions>>

AccountRow(o, b, active, daily, special, used) ==
    [owner |-> o, balance |-> b, is_active |-> active,
     daily_withdrawal_limit |-> daily, special_withdrawal_limit |-> special,
     used_special_withdrawal |-> used]

TransactionRow(id, day, origin, v, type) ==
    [pk_id |-> id, created_at |-> day, origin_account_number |-> origin,
     value |-> v, transaction_type |-> type]

\* The variant of the row in which a new account opens with 100.
NewAccountFunded(o) ==
    AccountRow(o, 100, TRUE, DefaultDailyWithdrawalLimit,
               DefaultSpecialWithdrawalLimit, DefaultUsedSpecialWithdrawal)

NewAccount(o) ==
    AccountRow(o, DefaultBalance, TRUE, DefaultDailyWithdrawalLimit,
               DefaultSpecialWithdrawalLimit, DefaultUsedSpecialWithdrawal)

(***************************************************************************)
(* Stores the service may find when it starts.  The tables are durable and *)
(* rows are also written straight through the ORM (tests/conftest.py,      *)
(* fixture test_account), so a run starts from any well-formed store: each *)
(* seed reconciles its balances with its transaction rows.                 *)
(***************************************************************************)
EmptyStore ==
    [accounts |-> [n \in {} |-> NewAccount("u1")], transactions |-> {}]

\* balance 0, special limit 500, nothing used, daily limit 1
OverdraftStore ==
    [accounts |-> [n \in {1} |-> AccountRow("u1", 0, TRUE, 1, 500, 0)],
     transactions |-> {}]

\* the same account once 300 was drawn from the allowance today
DailyLimitReachedStore ==
    [accounts |-> [n \in {1} |-> AccountRow("u1", 0, TRUE, 1, 500, 300)],
     transactions |-> {TransactionRow("t1", 1, 1, 300, "withdrawal")}]

\* balance 100 and no special allowance
NoAllowanceStore ==
    [accounts |-> [n \in {1} |-> AccountRow("u1", 100, TRUE, 5, 0, 0)],
     transactions |-> {TransactionRow("t1", 1, 1, 100, "deposit")}]

\* account 1 holds 1000, account 2 of another user holds nothing
TwoAccountStore ==
    [accounts |-> [n \in {1, 2} |->
                     IF n = 1 THEN AccountRow("u1", 1000, TRUE, 5, 500, 0)
                              ELSE NewAccount("u2")],
     transactions |-> {TransactionRow("t1", 1, 1, 1000, "deposit")}]

\* an account holding 100 that was deactivated
InactiveStore ==
    [accounts |-> [n \in {1} |-> AccountRow("u1", 100, FALSE, 5, 500, 0)],
     transactions |-> {TransactionRow("t1", 1, 1, 100, "deposit")}]

SeedStores ==
    {EmptyStore, OverdraftStore, DailyLimitReachedStore, NoAllowanceStore,
     TwoAccountStore, InactiveStore}

(***************************************************************************)
(* Request validation done by the framework before the handler runs:       *)
(* TransactionIn (extra fields forbidden, value positive, type in the      *)
(* enumeration).                                                           *)
(***************************************************************************)
ModelDump(body) == DOMAIN body

TransactionInValid(body) ==
    /\ DOMAIN body = TransactionInFields
    /\ body.value > 0
    /\ body.transaction_type \in TransactionType

(***************************************************************************)
(* register_transaction, the body of its try block in source order.  The   *)
(* result is what the block ends with: "return" (a response is returned),  *)
(* "http" (an HTTPException raised by the block) or "exception" (any other *)
(* exception, handled by rollback and HTTP 500), and the accounts table as *)
(* committed by the block.                                                 *)
(***************************************************************************)
Raised(acc) ==
    [kind |-> "exception", response |-> Response(500, "error"), accounts |-> acc]

HttpError(s, d, acc) ==
    [kind |-> "http", response |-> Response(s, d), accounts |-> acc]

Returned(s, d, acc) ==
    [kind |-> "return", response |-> Response(s, d), accounts |-> acc]

\* TransactionOut(id=..., created_at=..., **transaction_in.model_dump()):
\* pydantic rejects a keyword that is not a field of TransactionOut.
TransactionOutRaises(body) ==
    LET kwargs == OutMixinFields \cup ModelDump(body)
    IN  \/ kwargs \ TransactionOutFields # {}
        \/ TransactionOutFields \ kwargs # {}

\* TransactionModel(**transaction_out.model_dump()): the declarative
\* constructor rejects a keyword that is not a mapped attribute.
TransactionModelRaises == TransactionOutFields \ TransactionModelAttrs # {}

\* "await select(...).filter(...)": a Select object is not awaitable.
SelectIsAwaitable == FALSE

\* The query of account_withdrawals_today.
\* The rows a call locks, in the order it locks them: db_session.get issues
\* a plain SELECT (no with_for_update), so the handler holds no row lock.
LockedRows(body) == << >>

WithdrawalsToday(txs, n, day) ==
    {t \in txs : /\ t.origin_account_number = n
                 /\ t.transaction_type = "withdrawal"
                 /\ t.created_at >= day}

AvailableBalance(row) ==
    row.balance + (row.special_withdrawal_limit - row.used_special_withdrawal)

\* Lines 130-168: the reads of account_model and the if/elif chain.
Admission(acc, txs, body, user, day) ==
    LET n == body.origin_account_number
        value == body.value
    IN  IF n \notin DOMAIN acc
        THEN Raised(acc)    \* account_model is None: attribute read fails
        ELSE
          LET account_model == acc[n]
              withdraw_limit == account_model.daily_withdrawal_limit
              balance == account_model.balance
          IN  IF account_model.owner # user /\ ~IsSuperuser(user)
              THEN HttpError(403, "forbidden", acc)
              ELSE IF body.transaction_type = "deposit"
              THEN Returned(201, "created", acc)
              ELSE IF body.transaction_type = "withdrawal"
              THEN IF Cardinality(WithdrawalsToday(txs, n, day)) >= withdraw_limit
                   THEN HttpError(400, "daily limit", acc)
                   ELSE IF value > AvailableBalance(account_model)
                   THEN HttpError(400, "insufficient funds", acc)
                   ELSE IF value > balance
                   THEN Returned(201, "created",
                          [acc EXCEPT ![n].used_special_withdrawal = @ + (value - balance)])
                   ELSE Returned(500, "error", acc)   \* returns None
              ELSE Returned(500, "error", acc)        \* returns None

\* Variants of the try block used to test the properties below.
\* The three early failures absent: the if/elif chain is reached.
TryBodyReachesAdmission(acc, txs, body, user, day) ==
    Admission(acc, txs, body, user, day)

\* The allowance written and committed before the block fails.
TryBodyCommitsThenFails(acc, txs, body, user, day) ==
    LET n == body.origin_account_number
    IN  IF n \in DOMAIN acc /\ body.transaction_type = "withdrawal"
        THEN Raised([acc EXCEPT ![n].used_special_withdrawal = @ + body.value])
        ELSE Raised(acc)

\* The variant in which a deposit is carried out and repays the overdraft.
TryBodyDepositRepays(acc, txs, body, user, day) ==
    LET n == body.origin_account_number
    IN  IF n \in DOMAIN acc /\ body.transaction_type = "deposit"
        THEN Returned(201, "created",
                 [acc EXCEPT ![n].used_special_withdrawal =
                                 IF @ > body.value THEN @ - body.value ELSE 0])
        ELSE Raised(acc)

TryBody(acc, txs, body, user, day) ==
    IF TransactionOutRaises(body) THEN Raised(acc)
    ELSE IF TransactionModelRaises THEN Raised(acc)
    ELSE IF ~SelectIsAwaitable THEN Raised(acc)
    ELSE Admission(acc, txs, body, user, day)

(***************************************************************************)
(* Actions.                                                                *)
(***************************************************************************)
Seeded(s) ==
    /\ accounts = s.accounts
    /\ transactions = s.transactions
    /\ nextAccountNumber = Cardinality(DOMAIN s.accounts) + 1
    /\ today = 1
    /\ pc = [c \in Calls |-> "idle"]
    /\ request = [c \in Calls |-> NoRequest]
    /\ actor = [c \in Calls |-> NoUser]
    /\ response = [c \in Calls |-> NoResponse]
    /\ before = [c \in Calls |-> EmptyStore]

Init == \E s \in SeedStores : Seeded(s)

\* POST /transactions/ arrives: authentication and body validation.
Submit(c, body, u) ==
    /\ pc[c] = "idle"
    /\ request' = [request EXCEPT ![c] = body]
    /\ actor' = [actor EXCEPT ![c] = u]
    /\ before' = [before EXCEPT ![c] = [accounts |-> accounts, transactions |-> transactions]]
    /\ IF TransactionInValid(body)
       THEN /\ pc' = [pc EXCEPT ![c] = "running"]
            /\ response' = response
       ELSE /\ pc' = [pc EXCEPT ![c] = "done"]
            /\ response' = [response EXCEPT ![c] = Response(422, "validation")]
    /\ UNCHANGED <<accounts, transactions, nextAccountNumber, today>>

\* register_transaction up to its return or its first exception.
RegisterTransaction(c) ==
    /\ pc[c] = "running"
    /\ LET r == TryBody(accounts, transactions, request[c], actor[c], today)
       IN  /\ accounts' = r.accounts
           /\ IF r.kind = "exception"
              THEN /\ pc' = [pc EXCEPT ![c] = "rollback"]
                   /\ response' = response
              ELSE /\ pc' = [pc EXCEPT ![c] = "done"]
                   /\ response' = [response EXCEPT ![c] = r.response]
    /\ UNCHANGED <<transactions, nextAccountNumber, today, request, actor, before>>

\* except Exception: await db_session.rollback(); raise HTTPException(500).
Rollback(c) ==
    /\ pc[c] = "rollback"
    /\ pc' = [pc EXCEPT ![c] = "done"]
    /\ response' = [response EXCEPT ![c] = Response(500, "error")]
    /\ UNCHANGED <<accounts, transactions, nextAccountNumber, today, request, actor, before>>

\* The response is delivered; the slot serves the next request.
Respond(c) ==
    /\ pc[c] = "done"
    /\ pc' = [pc EXCEPT ![c] = "idle"]
    /\ request' = [request EXCEPT ![c] = NoRequest]
    /\ actor' = [actor EXCEPT ![c] = NoUser]
    /\ response' = [response EXCEPT ![c] = NoResponse]
    /\ before' = [before EXCEPT ![c] = EmptyStore]
    /\ UNCHANGED <<accounts, transactions, nextAccountNumber, today>>

\* create_account: insert one row owned by the caller, commit.
CreateAccount(u) ==
    /\ nextAccountNumber <= MaxAccounts
    /\ accounts' = [n \in DOMAIN accounts \cup {nextAccountNumber} |->
                      IF n = nextAccountNumber THEN NewAccount(u) ELSE accounts[n]]
    /\ nextAccountNumber' = nextAccountNumber + 1
    /\ UNCHANGED <<transactions, today, pc, request, actor, response, before>>

\* update_account (administrators only): setattr of every field of the
\* body on the row, commit.  A field that is no column of the row is a
\* plain attribute and is not persisted; a body with a field AccountUpdate
\* does not declare is refused by validation.
\* The variant of the loop that also clears the overdraft of the row.
ApplyUpdateResets(row, body) == [row EXCEPT !.used_special_withdrawal = 0]

ApplyUpdate(row, body) ==
    [f \in DOMAIN row |-> IF f \in DOMAIN body THEN body[f] ELSE row[f]]

UpdateRequest(n, body) == [account_number |-> n, update |-> body]

IsUpdateRequest(req) == DOMAIN req = {"account_number", "update"}

UpdateAccount(c, n, body) ==
    /\ pc[c] = "idle"
    /\ request' = [request EXCEPT ![c] = UpdateRequest(n, body)]
    /\ actor' = [actor EXCEPT ![c] = "admin"]
    /\ before' = [before EXCEPT ![c] = [accounts |-> accounts, transactions |-> transactions]]
    /\ pc' = [pc EXCEPT ![c] = "done"]
    /\ IF ~(DOMAIN body \subseteq AccountUpdateFields)
       THEN /\ accounts' = accounts
            /\ response' = [response EXCEPT ![c] = Response(422, "validation")]
       ELSE IF n \notin DOMAIN accounts
       THEN /\ accounts' = accounts
            /\ response' = [response EXCEPT ![c] = Response(404, "not found")]
       ELSE /\ accounts' = [accounts EXCEPT ![n] = ApplyUpdate(@, body)]
            /\ response' = [response EXCEPT ![c] = Response(200, "ok")]
    /\ UNCHANGED <<transactions, nextAccountNumber, today>>

\* DELETE /accounts/{id} (administrators only).  The relationship
\* AccountModel.transactions declares no delete cascade and
\* transactions.origin_account_number is a NOT NULL foreign key, so flushing
\* the delete of an account that still has transaction rows fails; the
\* handler rolls back and answers 500.  An account without rows is removed.
Referencing(txs, n) == {t \in txs : t.origin_account_number = n}

DeleteCascades(acc, txs, n) ==
    [accounts |-> [m \in DOMAIN acc \ {n} |-> acc[m]],
     transactions |-> txs \ Referencing(txs, n)]

\* The variant in which the delete goes through whatever refers to the row.
DeleteOrphans(acc, txs, n) ==
    [accounts |-> [m \in DOMAIN acc \ {n} |-> acc[m]], transactions |-> txs]

DeleteResult(acc, txs, n) ==
    IF Referencing(txs, n) # {}
    THEN [accounts |-> acc, transactions |-> txs]
    ELSE [accounts |-> [m \in DOMAIN acc \ {n} |-> acc[m]], transactions |-> txs]

DeleteAccount(n) ==
    /\ n \in DOMAIN accounts
    /\ LET r == DeleteResult(accounts, transactions, n)
       IN  /\ accounts' = r.accounts
           /\ transactions' = r.transactions
    /\ UNCHANGED <<nextAccountNumber, today, pc, request, actor, response, before>>

(***************************************************************************)
(* GET /accounts/statements/me (get_bank_statement).  The query names an   *)
(* account number and two optional dates.  The handler looks the account   *)
(* up by number AND owner (404 otherwise), then builds the query of the    *)
(* transactions, which reads TransactionModel.destination_account_number:  *)
(* the model class declares no such attribute, so the handler raises and   *)
(* the call is answered 500.  It has no commit.                            *)
(***************************************************************************)
NoDate == 0

StatementDates == {NoDate, 1, MaxDay}

StatementQueries ==
    [account_number : AccountNumbers, initial_date : StatementDates,
     final_date : StatementDates]

IsStatementQuery(req) ==
    DOMAIN req = {"account_number", "initial_date", "final_date"}

\* The variant of the lookup that lets an administrator read any account.
StatementAccountOrAdmin(acc, u, n) ==
    n \in DOMAIN acc /\ (acc[n].owner = u \/ IsSuperuser(u))

\* select(AccountModel).filter_by(account_number=..., owner=...).first()
StatementAccount(acc, u, n) == n \in DOMAIN acc /\ acc[n].owner = u

\* The rows the transaction query selects, most recent first.
InRange(t, initial, final) ==
    /\ initial # NoDate => t.created_at >= initial
    /\ final # NoDate => t.created_at <= final

RECURSIVE OrderByCreatedAtDesc(_)
OrderByCreatedAtDesc(rows) ==
    IF rows = {} THEN << >>
    ELSE LET r == CHOOSE x \in rows : \A y \in rows : y.created_at <= x.created_at
         IN  <<r>> \o OrderByCreatedAtDesc(rows \ {r})

StatementRows(txs, q) ==
    OrderByCreatedAtDesc(
        {t \in Referencing(txs, q.account_number) :
            InRange(t, q.initial_date, q.final_date)})

StatementResponse(acc, txs, q) ==
    [status |-> 200, detail |-> "ok", account_number |-> q.account_number,
     balance |-> acc[q.account_number].balance,
     transactions |-> StatementRows(txs, q)]

\* The variant of the handler that stores the balance it read.
BankStatementWrites(acc, txs, u, q) ==
    IF ~StatementAccount(acc, u, q.account_number)
    THEN HttpError(404, "not found", acc)
    ELSE Raised([acc EXCEPT ![q.account_number].balance = 0])

BankStatement(acc, txs, u, q) ==
    IF ~StatementAccount(acc, u, q.account_number)
    THEN HttpError(404, "not found", acc)
    ELSE IF "destination_account_number" \notin TransactionModelAttrs
    THEN Raised(acc)
    ELSE [kind |-> "return", response |-> StatementResponse(acc, txs, q),
          accounts |-> acc]

GetBankStatement(c, u, q) ==
    /\ pc[c] = "idle"
    /\ request' = [request EXCEPT ![c] = q]
    /\ actor' = [actor EXCEPT ![c] = u]
    /\ before' = [before EXCEPT ![c] = [accounts |-> accounts, transactions |-> transactions]]
    /\ LET r == BankStatement(accounts, transactions, u, q)
       IN  /\ accounts' = r.accounts
           /\ response' = [response EXCEPT ![c] = r.response]
    /\ pc' = [pc EXCEPT ![c] = "done"]
    /\ UNCHANGED <<transactions, nextAccountNumber, today>>

\* UTC midnight passes.
Tick ==
    /\ today < MaxDay
    /\ today' = today + 1
    /\ UNCHANGED <<accounts, transactions, nextAccountNumber, pc, request, actor, response, before>>

\* One client at a time, every body and every user.
Next ==
    \/ \E body \in Bodies, u \in Users : Submit("c1", body, u)
    \/ RegisterTransaction("c1")
    \/ Rollback("c1")
    \/ Respond("c1")
    \/ \E u \in {"u1", "u2"} : CreateAccount(u)
    \/ \E n \in AccountNumbers, body \in UpdateBodies : UpdateAccount("c1", n, body)
    \/ \E n \in AccountNumbers : DeleteAccount(n)
    \/ \E u \in Users, q \in StatementQueries : GetBankStatement("c1", u, q)
    \/ Tick

Spec == Init /\ [][Next]_vars

\* Two clients whose calls interleave: deposits and withdrawals on account 1
\* and transfers in opposite directions between accounts 1 and 2.
OppositeTransfers ==
    {[value |-> 500, transaction_type |-> "transfer",
      origin_account_number |-> a, destination_account_number |-> 3 - a] :
        a \in {1, 2}}

ConcurrentBodies ==
    {b \in DepositBodies \cup WithdrawalBodies : b.origin_account_number = 1}
        \cup OppositeTransfers

InitConcurrent == \E s \in SeedStores \ {EmptyStore} : Seeded(s)

NextConcurrent ==
    \/ \E c \in Calls, body \in ConcurrentBodies, u \in {"u1", "admin"} : Submit(c, body, u)
    \/ \E c \in Calls : RegisterTransaction(c)
    \/ \E c \in Calls : Rollback(c)
    \/ \E c \in Calls : Respond(c)

SpecConcurrent == InitConcurrent /\ [][NextConcurrent]_vars

\* The event loop resumes every coroutine that is ready, and the handler
\* waits for nothing but its own database round trips: a call that has
\* started takes its next step.
SpecConcurrentFair ==
    /\ SpecConcurrent
    /\ \A c \in Calls : WF_vars(RegisterTransaction(c)) /\ WF_vars(Rollback(c))

(***************************************************************************)
(* Vocabulary of the properties: a call, what it asked, what it found when *)
(* it arrived (before) and how it ended.                                   *)
(***************************************************************************)
RECURSIVE SumValues(_)
SumValues(rows) ==
    IF rows = {} THEN 0
    ELSE LET r == CHOOSE x \in rows : TRUE
         IN  r.value + SumValues(rows \ {r})

RECURSIVE SumHeld(_, _)
SumHeld(acc, ns) ==
    IF ns = {} THEN 0
    ELSE LET n == CHOOSE x \in ns : TRUE
         IN  acc[n].balance + acc[n].used_special_withdrawal + SumHeld(acc, ns \ {n})

TotalHeld(acc) == SumHeld(acc, DOMAIN acc)

Finished(c) == pc[c] = "done"

Admitted(c) == Finished(c) /\ response[c].status = 201

RejectedFor(c, reason) ==
    Finished(c) /\ response[c].status = 400 /\ response[c].detail = reason

Asks(c, type) ==
    /\ TransactionInFields \subseteq DOMAIN request[c]
    /\ request[c].transaction_type = type
    /\ request[c].value > 0

Origin(c) == request[c].origin_account_number

OriginBefore(c) == before[c].accounts[Origin(c)]

\* The origin exists, the caller owns it or is an administrator, it is active.
PreconditionsPass(c) ==
    /\ Origin(c) \in DOMAIN before[c].accounts
    /\ OriginBefore(c).owner = actor[c] \/ IsSuperuser(actor[c])
    /\ OriginBefore(c).is_active

Available(row) ==
    row.balance + (row.special_withdrawal_limit - row.used_special_withdrawal)

WithdrawalsOn(txs, n, day) ==
    {t \in txs : /\ t.origin_account_number = n
                 /\ t.transaction_type = "withdrawal"
                 /\ t.created_at = day}

UnderDailyLimit(c) ==
    Cardinality(WithdrawalsOn(before[c].transactions, Origin(c), today))
        < OriginBefore(c).daily_withdrawal_limit

EligibleDeposit(c) == Asks(c, "deposit") /\ PreconditionsPass(c)

EligibleWithdrawal(c) ==
    Asks(c, "withdrawal") /\ PreconditionsPass(c) /\ UnderDailyLimit(c)

FundedWithdrawal(c) ==
    EligibleWithdrawal(c) /\ request[c].value <= Available(OriginBefore(c))

\* The origin row as a withdrawal of v leaves it.
Debited(row, v) ==
    IF v <= row.balance
    THEN [row EXCEPT !.balance = @ - v]
    ELSE [row EXCEPT !.balance = 0,
                     !.used_special_withdrawal = @ + (v - row.balance)]

(***************************************************************************)
(* C1.  Two concurrent withdrawals V1, V2 from one account with available  *)
(* amount A, V1 + V2 > A >= max(V1, V2), daily limit not reached: exactly  *)
(* one is admitted and the other is rejected.                              *)
(***************************************************************************)
C1_Competing(c, d) ==
    /\ c # d /\ Finished(c) /\ Finished(d)
    /\ before[c] = before[d]
    /\ EligibleWithdrawal(c) /\ EligibleWithdrawal(d)
    /\ Origin(c) = Origin(d)
    /\ LET A == Available(OriginBefore(c))
           V1 == request[c].value
           V2 == request[d].value
       IN  V1 + V2 > A /\ A >= V1 /\ A >= V2

C1_ExactlyOneAdmitted ==
    \A c, d \in Calls :
        C1_Competing(c, d) =>
            \/ Admitted(c) /\ response[d].status = 400
            \/ Admitted(d) /\ response[c].status = 400

Credits(n) ==
    {t \in transactions :
        \/ t.transaction_type = "deposit" /\ t.origin_account_number = n
        \/ /\ t.transaction_type = "transfer"
           /\ "destination_account_number" \in DOMAIN t
           /\ t.destination_account_number = n}

Debits(n) ==
    {t \in transactions :
        /\ t.transaction_type \in {"withdrawal", "transfer"}
        /\ t.origin_account_number = n}

C4_Reconciliation ==
    \A n \in DOMAIN accounts :
        accounts[n].balance - accounts[n].used_special_withdrawal =
            SumValues(Credits(n)) - SumValues(Debits(n))

\* A call has been served on an account that has records in the ledger.
C4_Witness ==
    \E c \in Calls :
        /\ Finished(c) /\ Asks(c, "withdrawal")
        /\ Origin(c) \in DOMAIN accounts
        /\ Debits(Origin(c)) # {}
        /\ accounts[Origin(c)].used_special_withdrawal = SumValues(Debits(Origin(c)))

(***************************************************************************)
(* C5.  Daily limit: no account has more than daily_withdrawal_limit       *)
(* withdrawals recorded on one day, and a withdrawal requested when that   *)
(* many are already committed today is rejected with the daily-limit       *)
(* reason.                                                                 *)
(***************************************************************************)
C5_DailyLimit ==
    /\ \A n \in DOMAIN accounts : \A day \in 1 .. MaxDay :
          Cardinality(WithdrawalsOn(transactions, n, day))
              <= accounts[n].daily_withdrawal_limit
    /\ \A c \in Calls :
          ( /\ Finished(c) /\ Asks(c, "withdrawal") /\ PreconditionsPass(c)
            /\ ~UnderDailyLimit(c) )
          => RejectedFor(c, "daily limit")

(***************************************************************************)
(* C6.  No-op on rejection: a step of a call that does not admit it leaves *)
(* the balance and used_special_withdrawal of every account and the set of *)
(* transaction records as they were.                                       *)
(***************************************************************************)
LedgerUnchanged ==
    /\ transactions' = transactions
    /\ DOMAIN accounts' = DOMAIN accounts
    /\ \A n \in DOMAIN accounts :
          /\ accounts'[n].balance = accounts[n].balance
          /\ accounts'[n].used_special_withdrawal = accounts[n].used_special_withdrawal

C6_NoOpOnRejection ==
    [][\A c \in Calls :
          (pc'[c] # pc[c] /\ response'[c].status # 201) => LedgerUnchanged]_vars

\* A withdrawal that the account could fund from its allowance has ended
\* with an error response.
C6_Witness ==
    \E c \in Calls :
        /\ Finished(c) /\ FundedWithdrawal(c)
        /\ request[c].value > OriginBefore(c).balance
        /\ response[c].status = 500

(***************************************************************************)
(* C7.  A funded withdrawal of v under the daily limit leaves the origin   *)
(* with balance b - v when v <= b, and with balance 0 and                  *)
(* used_special_withdrawal raised by v - b otherwise.                      *)
(***************************************************************************)
C7_WithdrawalEffect ==
    \A c \in Calls :
        (Finished(c) /\ FundedWithdrawal(c)) =>
            /\ Origin(c) \in DOMAIN accounts
            /\ accounts[Origin(c)] = Debited(OriginBefore(c), request[c].value)

(***************************************************************************)
(* C8.  A deposit of v > 0 by the owner or an administrator on an          *)
(* existing, active account is admitted and raises the balance by v, with  *)
(* used_special_withdrawal and the limits unchanged.                       *)
(***************************************************************************)
C8_DepositAdmitted ==
    \A c \in Calls :
        (Finished(c) /\ EligibleDeposit(c)) =>
            /\ Admitted(c)
            /\ Origin(c) \in DOMAIN accounts
            /\ accounts[Origin(c)] =
                  [OriginBefore(c) EXCEPT !.balance = @ + request[c].value]

(***************************************************************************)
(* C9.  A withdrawal under the daily limit is admitted if and only if its  *)
(* value is at most the available amount; above it the call is rejected    *)
(* for insufficient funds and the balance stays.                           *)
(***************************************************************************)
C9_AdmittedIffAvailable ==
    \A c \in Calls :
        (Finished(c) /\ EligibleWithdrawal(c)) =>
            /\ Admitted(c) <=> request[c].value <= Available(OriginBefore(c))
            /\ request[c].value > Available(OriginBefore(c)) =>
                  /\ RejectedFor(c, "insufficient funds")
                  /\ Origin(c) \in DOMAIN accounts
                  /\ accounts[Origin(c)].balance = OriginBefore(c).balance

(***************************************************************************)
(* C10.  Transfer atomicity: a funded transfer of v from A to an existing  *)
(* account B is admitted, debits A as a withdrawal of v would, credits B   *)
(* by v and adds exactly one record (A, B, v); a transfer that is not      *)
(* admitted credits nothing and records nothing.                           *)
(***************************************************************************)
AsksTransfer(c) ==
    /\ DOMAIN request[c] = TransactionInFields \cup {"destination_account_number"}
    /\ request[c].transaction_type = "transfer"
    /\ request[c].value > 0

FundedTransfer(c) ==
    /\ AsksTransfer(c) /\ PreconditionsPass(c) /\ UnderDailyLimit(c)
    /\ request[c].destination_account_number \in DOMAIN before[c].accounts
    /\ request[c].destination_account_number # Origin(c)
    /\ request[c].value <= Available(OriginBefore(c))

C10_TransferAtomic ==
    \A c \in Calls :
        /\ (Finished(c) /\ FundedTransfer(c)) =>
              LET A == Origin(c)
                  B == request[c].destination_account_number
                  v == request[c].value
                  new == transactions \ before[c].transactions
              IN  /\ Admitted(c)
                  /\ {A, B} \subseteq DOMAIN accounts
                  /\ accounts[A] = Debited(before[c].accounts[A], v)
                  /\ accounts[B].balance = before[c].accounts[B].balance + v
                  /\ Cardinality(new) = 1
                  /\ \A t \in new : t.origin_account_number = A /\ t.value = v
        /\ (Finished(c) /\ AsksTransfer(c) /\ ~Admitted(c)) =>
              /\ transactions = before[c].transactions
              /\ \A n \in DOMAIN before[c].accounts \cap DOMAIN accounts :
                    accounts[n].balance = before[c].accounts[n].balance

(***************************************************************************)
(* Vocabulary shared by the claims on rejections.                          *)
(***************************************************************************)
AsksAny(c) ==
    Asks(c, "deposit") \/ Asks(c, "withdrawal") \/ Asks(c, "transfer")

OriginExisted(c) == Origin(c) \in DOMAIN before[c].accounts

Entitled(c) ==
    /\ OriginExisted(c)
    /\ OriginBefore(c).owner = actor[c] \/ IsSuperuser(actor[c])

Stranger(c) == OriginExisted(c) /\ ~Entitled(c)

\* The origin row and the records of the origin are as the call found them.
OriginUntouched(c) ==
    /\ Origin(c) \in DOMAIN accounts => accounts[Origin(c)] = OriginBefore(c)
    /\ Referencing(transactions, Origin(c)) =
          Referencing(before[c].transactions, Origin(c))

TransferWithoutDestination(c) ==
    /\ Asks(c, "transfer")
    /\ "destination_account_number" \notin DOMAIN request[c]

TransferToMissing(c) ==
    /\ Asks(c, "transfer")
    /\ "destination_account_number" \in DOMAIN request[c]
    /\ request[c].destination_account_number \notin DOMAIN before[c].accounts

(***************************************************************************)
(* C11.  A transfer without destination_account_number is rejected with    *)
(* the reason "destination required", a transfer to an account that does   *)
(* not exist ends as NotFound (404), and in both cases the origin account  *)
(* is not debited.                                                         *)
(***************************************************************************)
C11_TransferDestination ==
    \A c \in Calls :
        (Finished(c) /\ PreconditionsPass(c)) =>
            /\ TransferWithoutDestination(c) =>
                  RejectedFor(c, "destination required") /\ OriginUntouched(c)
            /\ TransferToMissing(c) =>
                  response[c].status = 404 /\ OriginUntouched(c)

(***************************************************************************)
(* C12.  A request of any type whose origin_account_number names no        *)
(* existing account ends as NotFound (404), whoever the actor is.          *)
(***************************************************************************)
C12_OriginNotFound ==
    \A c \in Calls :
        (Finished(c) /\ AsksAny(c) /\ ~OriginExisted(c)) =>
            response[c].status = 404

(***************************************************************************)
(* C13.  A request on an existing account by an actor who neither owns it  *)
(* nor is an administrator ends as Forbidden (403) and changes nothing; a  *)
(* request by the owner or an administrator never ends as Forbidden.       *)
(***************************************************************************)
C13_Forbidden ==
    \A c \in Calls :
        (Finished(c) /\ AsksAny(c)) =>
            /\ Stranger(c) => response[c].status = 403 /\ OriginUntouched(c)
            /\ Entitled(c) => response[c].status # 403

(***************************************************************************)
(* C14.  While an account is inactive, every deposit, withdrawal or        *)
(* transfer by its owner or an administrator with that account as origin   *)
(* is rejected with the reason "account inactive", and its balance, its    *)
(* used_special_withdrawal and its records stay as they were.              *)
(***************************************************************************)
C14_InactiveRejected ==
    \A c \in Calls :
        (Finished(c) /\ AsksAny(c) /\ Entitled(c) /\ ~OriginBefore(c).is_active) =>
            /\ RejectedFor(c, "account inactive")
            /\ OriginUntouched(c)

(***************************************************************************)
(* C15.  Rejections follow one priority: origin NotFound, Forbidden,       *)
(* account inactive, destination required, destination NotFound, daily     *)
(* limit exceeded, insufficient funds; the response of a request that      *)
(* fails several checks is the one of the first check it fails.            *)
(***************************************************************************)
FirstFailure(c) ==
    IF ~OriginExisted(c) THEN Response(404, "not found")
    ELSE IF Stranger(c) THEN Response(403, "forbidden")
    ELSE IF ~OriginBefore(c).is_active THEN Response(400, "account inactive")
    ELSE IF Asks(c, "deposit") THEN NoResponse
    ELSE IF TransferWithoutDestination(c) THEN Response(400, "destination required")
    ELSE IF TransferToMissing(c) THEN Response(404, "not found")
    ELSE IF ~UnderDailyLimit(c) THEN Response(400, "daily limit")
    ELSE IF request[c].value > Available(OriginBefore(c))
         THEN Response(400, "insufficient funds")
    ELSE NoResponse

C15_RejectionPriority ==
    \A c \in Calls :
        (Finished(c) /\ AsksAny(c) /\ FirstFailure(c) # NoResponse) =>
            response[c] = FirstFailure(c)

(***************************************************************************)
(* C16.  Every admitted transaction inserts exactly one record: a call     *)
(* that meets the admission rules leaves exactly one new record of its     *)
(* origin, value and type, and any other call leaves none, so the records  *)
(* of an account count its admitted calls.                                 *)
(***************************************************************************)
NewRecords(c) == transactions \ before[c].transactions

MeetsAdmission(c) ==
    EligibleDeposit(c) \/ FundedWithdrawal(c) \/ FundedTransfer(c)

UniqueIds ==
    \A t \in transactions, u \in transactions : t.pk_id = u.pk_id => t = u

RecordsKept == \A t \in transactions : t \in transactions'

C17_AppendOnly == UniqueIds /\ [][RecordsKept /\ UniqueIds']_vars

\* A record made on an earlier day is still there after a call on its account.
C17_Witness ==
    \E c \in Calls, t \in transactions :
        /\ Finished(c) /\ AsksAny(c)
        /\ t.origin_account_number = Origin(c)
        /\ t.created_at < today
        /\ t \in before[c].transactions

(***************************************************************************)
(* C18.  No lost update: admissions that overlap on one account are        *)
(* serializable; two deposits of v1 and v2 that found the account in the   *)
(* same state are both admitted and raise its balance by v1 + v2.          *)
(***************************************************************************)
C18_Overlapping(c, d) ==
    /\ c # d
    /\ Finished(c) /\ Finished(d)
    /\ EligibleDeposit(c) /\ EligibleDeposit(d)
    /\ Origin(c) = Origin(d)
    /\ OriginBefore(c) = OriginBefore(d)

AscendingRows(body) ==
    LET a == body.origin_account_number
        b == body.destination_account_number
    IN  IF a < b THEN <<a, b>> ELSE <<b, a>>

BetweenAccounts(c) ==
    /\ AsksTransfer(c)
    /\ {Origin(c), request[c].destination_account_number}
          \subseteq DOMAIN before[c].accounts

BusinessOutcome(c) == response[c].status \in {201, 400, 403, 404}

ConflictPossible(c) ==
    \E d \in Calls \ {c} :
        /\ pc[d] # "idle"
        /\ request[d].origin_account_number = Origin(c)

C20_OneOutcome ==
    /\ [](\A c \in Calls :
            (Finished(c) /\ AsksAny(c)) =>
                BusinessOutcome(c) \/ ConflictPossible(c))
    /\ \A c \in Calls : (pc[c] \in {"running", "rollback"}) ~> Finished(c)

(***************************************************************************)
(* Vocabulary of the claims on the statement read.                         *)
(***************************************************************************)
StatementCall(c) == Finished(c) /\ IsStatementQuery(request[c])

OwnStatement(c) ==
    /\ StatementCall(c)
    /\ request[c].account_number \in DOMAIN before[c].accounts
    /\ before[c].accounts[request[c].account_number].owner = actor[c]

ExpectedRecords(c) ==
    {t \in before[c].transactions :
        /\ t.origin_account_number = request[c].account_number
        /\ request[c].initial_date = NoDate \/ t.created_at >= request[c].initial_date
        /\ request[c].final_date = NoDate \/ t.created_at <= request[c].final_date}

IsDescending(rows) ==
    \A i \in DOMAIN rows, j \in DOMAIN rows :
        i < j => rows[i].created_at >= rows[j].created_at

(***************************************************************************)
(* C21.  A statement asked by the owner of account X with optional bounds  *)
(* initial_date and final_date returns exactly the records of X whose      *)
(* created_at lies between the start of initial_date and the end of        *)
(* final_date, most recent first; without bounds, all records of X.        *)
(***************************************************************************)
C21_StatementContents ==
    \A c \in Calls :
        OwnStatement(c) =>
            /\ response[c].status = 200
            /\ {response[c].transactions[i] : i \in DOMAIN response[c].transactions}
                  = ExpectedRecords(c)
            /\ Len(response[c].transactions) = Cardinality(ExpectedRecords(c))
            /\ IsDescending(response[c].transactions)

(***************************************************************************)
(* C22.  The statement read never mutates state: the step of a             *)
(* get_bank_statement call, successful or not, leaves every account row    *)
(* and every transaction record as it was, and a balance it reports is     *)
(* the stored balance of the account.                                      *)
(***************************************************************************)
StatementStep(c) ==
    pc[c] = "idle" /\ pc'[c] = "done" /\ IsStatementQuery(request'[c])

Created == DOMAIN accounts' \ DOMAIN accounts

C24_CreatedAccount ==
    /\ \A n \in DOMAIN accounts : n < nextAccountNumber
    /\ [][/\ nextAccountNumber' >= nextAccountNumber
          /\ \A n \in Created :
                /\ accounts'[n].balance = 0
                /\ accounts'[n].used_special_withdrawal = 0
                /\ accounts'[n].is_active
                /\ n >= nextAccountNumber /\ n < nextAccountNumber'
                /\ \E u \in Users : CreateAccount(u) /\ accounts'[n].owner = u]_vars

\* Two accounts were made in a store that had at most one.
C24_Witness ==
    /\ transactions = {}
    /\ DOMAIN accounts = {1, 2}
    /\ accounts[2].balance = 0 /\ accounts[2].is_active
    /\ accounts[1].owner # accounts[2].owner

(***************************************************************************)
(* C25.  balance and used_special_withdrawal change only by admission:     *)
(* update_account leaves the balance, the used_special_withdrawal, the     *)
(* owner and the account number of every account as they were, for every   *)
(* payload it accepts.                                                     *)
(***************************************************************************)
UpdateStep(c) ==
    pc[c] = "idle" /\ pc'[c] = "done" /\ IsUpdateRequest(request'[c])

C25_UpdateFrame ==
    [][\A c \in Calls :
          UpdateStep(c) =>
              /\ DOMAIN accounts' = DOMAIN accounts
              /\ \A n \in DOMAIN accounts :
                    /\ accounts'[n].balance = accounts[n].balance
                    /\ accounts'[n].used_special_withdrawal =
                          accounts[n].used_special_withdrawal
                    /\ accounts'[n].owner = accounts[n].owner]_vars

\* An update was accepted for an account that has drawn on its allowance.
C25_Witness ==
    \E c \in Calls :
        /\ Finished(c) /\ IsUpdateRequest(request[c])
        /\ response[c].status = 200
        /\ request[c].account_number \in DOMAIN accounts
        /\ accounts[request[c].account_number].used_special_withdrawal > 0

(***************************************************************************)
(* C26.  Only admitted withdrawals consume the daily allowance: a deposit  *)
(* or a withdrawal that is not admitted adds no withdrawal record to the   *)
(* account, and a funded withdrawal on an account that has had fewer       *)
(* admitted withdrawals today than its limit is admitted.                  *)
(***************************************************************************)
WithdrawalRecords(txs, n) ==
    {t \in Referencing(txs, n) : t.transaction_type = "withdrawal"}

C26_OnlyAdmittedConsume ==
    \A c \in Calls :
        Finished(c) =>
            /\ (Asks(c, "deposit") \/ (Asks(c, "withdrawal") /\ ~Admitted(c))) =>
                  WithdrawalRecords(transactions, Origin(c)) =
                      WithdrawalRecords(before[c].transactions, Origin(c))
            /\ FundedWithdrawal(c) => Admitted(c)

(***************************************************************************)
(* C27.  The daily window is the current calendar day: withdrawals made    *)
(* before today's midnight do not count, so a funded withdrawal on an      *)
(* account that reached its limit on an earlier day is admitted today.     *)
(***************************************************************************)
LimitReachedEarlier(c) ==
    LET past == WithdrawalRecords(before[c].transactions, Origin(c))
    IN  /\ \A t \in past : t.created_at < today
        /\ OriginBefore(c).daily_withdrawal_limit >= 1
        /\ Cardinality(past) >= OriginBefore(c).daily_withdrawal_limit

C27_WindowIsToday ==
    \A c \in Calls :
        (Finished(c) /\ Asks(c, "withdrawal") /\ PreconditionsPass(c)
            /\ LimitReachedEarlier(c)
            /\ request[c].value <= Available(OriginBefore(c))) =>
                Admitted(c)

(***************************************************************************)
(* C28.  An account with the default limits has a daily withdrawal limit   *)
(* of 3: its first three funded withdrawals of a day are admitted and the  *)
(* fourth is rejected for the daily limit.                                 *)
(***************************************************************************)
HasDefaultLimits(row) ==
    /\ row.daily_withdrawal_limit = DefaultDailyWithdrawalLimit
    /\ row.special_withdrawal_limit = DefaultSpecialWithdrawalLimit

C28_DefaultLimitThree ==
    \A c \in Calls :
        (Finished(c) /\ Asks(c, "withdrawal") /\ PreconditionsPass(c)
            /\ HasDefaultLimits(OriginBefore(c))
            /\ request[c].value <= Available(OriginBefore(c))) =>
                LET k == Cardinality(WithdrawalsOn(before[c].transactions, Origin(c), today))
                IN  /\ OriginBefore(c).daily_withdrawal_limit = 3
                    /\ k < 3 => Admitted(c)
                    /\ k >= 3 => RejectedFor(c, "daily limit")

(***************************************************************************)
(* C29.  used_special_withdrawal never decreases: no step lowers it on any *)
(* account, a deposit does not repay the overdraft, and while the special  *)
(* limit stays the remaining allowance never grows.                        *)
(***************************************************************************)
C29_UsedNeverDecreases ==
    [][\A n \in DOMAIN accounts \cap DOMAIN accounts' :
          /\ accounts'[n].used_special_withdrawal >=
                accounts[n].used_special_withdrawal
          /\ accounts'[n].special_withdrawal_limit =
                accounts[n].special_withdrawal_limit =>
                    Available(accounts'[n]) - accounts'[n].balance
                        <= Available(accounts[n]) - accounts[n].balance]_vars

\* A deposit by the owner finished on an account that is overdrawn.
C29_Witness ==
    \E c \in Calls :
        /\ Finished(c) /\ EligibleDeposit(c)
        /\ OriginBefore(c).used_special_withdrawal > 0
        /\ Origin(c) \in DOMAIN accounts
        /\ accounts[Origin(c)].used_special_withdrawal =
              OriginBefore(c).used_special_withdrawal

(***************************************************************************)
(* C30.  Referential integrity: in every state the origin of every         *)
(* transaction record is an existing account, and delete_account never     *)
(* removes an account that records still refer to.                         *)
(***************************************************************************)
OriginsExist ==
    \A t \in transactions : t.origin_account_number \in DOMAIN accounts

C30_ReferentialIntegrity ==
    /\ []OriginsExist
    /\ [][\A n \in DOMAIN accounts \ DOMAIN accounts' :
              Referencing(transactions, n) = {}]_vars

\* An account was deleted from a store that holds records of another one.
C30_Witness ==
    /\ transactions # {}
    /\ \E n \in 1 .. (nextAccountNumber - 1) : n \notin DOMAIN accounts
====
